---- MODULE Spec2Model ----
(***************************************************************************)
(* Model of dwave_networkx/drawing_extended/chimera_layout.py:             *)
(*   chimera_node_placer_2d / _xy_coords  (the coordinate mapper),         *)
(*   chimera_layout                       (the layout orchestrator),       *)
(*   _find_chimera_indices                (single-tile index inference),   *)
(*   draw_chimera                         (the render adapter).            *)
(*                                                                         *)
(* Numbers.  The effective scale is the rational scale / scale_den with    *)
(* scale_den = max(m, n) * tile_length - 3.  A point is kept exactly, as   *)
(* the sequence of the numerators of its coordinates over the common       *)
(* denominator scale_den:                                                  *)
(*     coordinate c  =  num[c] / den,                                      *)
(*     num[c] = xy[c] * scale + center[c] * den.                           *)
(* Floating-point rounding of numpy is not modelled.                       *)
(***************************************************************************)
EXTENDS Integers, Sequences, FiniteSets, TLC

VARIABLES
    scenario,      \* which entry point of the module is being exercised
    args,          \* the arguments of the call under way
    G,             \* the graph argument (layout, inference, drawing)
    xy_coords,     \* the closure returned by chimera_node_placer_2d
    grid_offsets,  \* the closure's memo table (line 90)
    xy_call,       \* the index of the last call of the closure
    xy_ret,        \* the point the last call of the closure returned
    pos,           \* the outcome of chimera_layout
    found,         \* the outcome of _find_chimera_indices
    drawn,         \* the outcome of draw_chimera
    pc             \* "start" before the call under way, "built" / "done" after it

vars == <<scenario, args, G, xy_coords, grid_offsets, xy_call, xy_ret, pos, found, drawn, pc>>

(***************************************************************************)
(* Bounds of the model.                                                    *)
(***************************************************************************)
MaxM == 2
MaxN == 2
MaxT == 2
MaxTiles == 6
MaxDim == 3
MinDim == 0 - 1

ScaleSet == {1, 2}

\* An optional value is a sequence of length at most one: None, or Some(v).
None == <<>>
Some(v) == <<v>>
IsNone(o) == Len(o) = 0
Get(o) == o[1]

\* the value of a variable the scenario does not use or has not set yet
Idle == [ok |-> FALSE, exc |-> "", line |-> 0]

max(a, b) == IF a >= b THEN a ELSE b

abs(c) == IF c < 0 THEN 0 - c ELSE c

\* max() over a non-empty set of integers
max_of(S) == CHOOSE x \in S : \A y \in S : y <= x

min_of(S) == CHOOSE x \in S : \A y \in S : x <= y

\* a raised exception: its class and the line that raises it
Raise(exc, line) == [ok |-> FALSE, exc |-> exc, line |-> line]

\* np.zeros(d), d >= 0
np_zeros(d) == [c \in 1..d |-> 0]

\* the vectors a caller may pass as center: constant vectors of every length
CenterSet == {None} \cup {Some([c \in 1..len |-> 1]) : len \in 0..MaxDim}

DimSet == MinDim..MaxDim

(***************************************************************************)
(* chimera_node_placer_2d, lines 53-130.  The closure is the record of the *)
(* values _xy_coords captures.                                             *)
(***************************************************************************)
chimera_node_placer_2d_min_side(m, n, t, scale, center, dim) ==
    LET tile_center == t \div 2
        tile_length == t + 3
        \* the shorter side of the lattice sets the scale
        scale_den == (IF m <= n THEN m ELSE n) * tile_length - 3
        paddims == dim - 2
    IN  IF scale_den = 0 THEN Raise("ZeroDivisionError", 88)
        ELSE IF IsNone(center) /\ dim < 0 THEN Raise("ValueError", 93)
        ELSE IF paddims < 0 THEN Raise("ValueError", 99)
        ELSE IF Len(IF IsNone(center) THEN np_zeros(dim) ELSE Get(center)) # dim
             THEN Raise("ValueError", 102)
        ELSE [ok |-> TRUE,
              tile_center |-> tile_center,
              tile_length |-> tile_length,
              scale |-> scale,
              scale_den |-> scale_den,
              center |-> IF IsNone(center) THEN np_zeros(dim) ELSE Get(center),
              paddims |-> paddims]

chimera_node_placer_2d_center_first(m, n, t, scale, center, dim) ==
    LET tile_center == t \div 2
        tile_length == t + 3
        scale_den == max(m, n) * tile_length - 3
        paddims == dim - 2
    IN  IF scale_den = 0 THEN Raise("ZeroDivisionError", 88)
        ELSE IF IsNone(center) /\ dim < 0 THEN Raise("ValueError", 93)
        \* the length of center is checked before the dimension
        ELSE IF Len(IF IsNone(center) THEN np_zeros(dim) ELSE Get(center)) # dim
             THEN Raise("ValueError", 102)
        ELSE IF paddims < 0 THEN Raise("ValueError", 99)
        ELSE [ok |-> TRUE,
              tile_center |-> tile_center,
              tile_length |-> tile_length,
              scale |-> scale,
              scale_den |-> scale_den,
              center |-> IF IsNone(center) THEN np_zeros(dim) ELSE Get(center),
              paddims |-> paddims]

chimera_node_placer_2d(m, n, t, scale, center, dim) ==
    LET tile_center == t \div 2
        tile_length == t + 3
        scale_den == max(m, n) * tile_length - 3
        paddims == dim - 2
    IN  IF scale_den = 0 THEN Raise("ZeroDivisionError", 88)
        \* np.zeros(dim) with dim < 0: "negative dimensions are not allowed"
        ELSE IF IsNone(center) /\ dim < 0 THEN Raise("ValueError", 93)
        ELSE IF paddims < 0 THEN Raise("ValueError", 99)
        ELSE IF Len(IF IsNone(center) THEN np_zeros(dim) ELSE Get(center)) # dim
             THEN Raise("ValueError", 102)
        ELSE [ok |-> TRUE,
              tile_center |-> tile_center,
              tile_length |-> tile_length,
              scale |-> scale,
              scale_den |-> scale_den,
              center |-> IF IsNone(center) THEN np_zeros(dim) ELSE Get(center),
              paddims |-> paddims]

\* grid_offsets = {}
EmptyOffsets == [key \in {} |-> <<0, 0>>]

\* grid_offsets[(i, j)] = off
StoreOffset(go, key, off) ==
    [x \in (DOMAIN go) \cup {key} |-> IF x = key THEN off ELSE go[x]]

\* np.hstack((xy * scale, np.zeros(paddims))) + center, as numerators over scale_den
hstack_scaled(mp, xy) ==
    [num |-> [c \in 1..(2 + mp.paddims) |->
                 (IF c <= 2 THEN xy[c] * mp.scale ELSE 0) + mp.center[c] * mp.scale_den],
     den |-> mp.scale_den]

(***************************************************************************)
(* _xy_coords, lines 104-128: the point returned and the memo table after  *)
(* the call.                                                               *)
(***************************************************************************)
xy_coords_no_gap(mp, go, i, j, u, k) ==
    LET p == k  \* no slot is skipped for the cross
        xy0 == IF u # 0 THEN <<mp.tile_center, (0 - 1) * p>>
                        ELSE <<p, (0 - 1) * mp.tile_center>>
        off == <<j * mp.tile_length, (0 - 1) * i * mp.tile_length>>
        xy == IF i > 0 \/ j > 0
              THEN <<xy0[1] + off[1], xy0[2] + off[2]>>
              ELSE xy0
    IN  [ret |-> hstack_scaled(mp, xy),
         grid_offsets |-> IF (i > 0 \/ j > 0) /\ <<i, j>> \notin DOMAIN go
                          THEN StoreOffset(go, <<i, j>>, off) ELSE go]

xy_coords_alias_cache(mp, go, i, j, u, k) ==
    LET p == IF k < mp.tile_center THEN k ELSE k + 1
        xy0 == IF u # 0 THEN <<mp.tile_center, (0 - 1) * p>>
                        ELSE <<p, (0 - 1) * mp.tile_center>>
        hit == <<i, j>> \in DOMAIN go
        off == <<j * mp.tile_length, (0 - 1) * i * mp.tile_length>>
        xy == IF i > 0 \/ j > 0
              THEN IF hit THEN <<xy0[1] + go[<<i, j>>][1], xy0[2] + go[<<i, j>>][2]>>
                          ELSE <<xy0[1] + off[1], xy0[2] + off[2]>>
              ELSE xy0
    IN  [ret |-> hstack_scaled(mp, xy),
         \* the table keeps the array that was added into
         grid_offsets |-> IF (i > 0 \/ j > 0) /\ ~hit
                          THEN StoreOffset(go, <<i, j>>, xy) ELSE go]

_xy_coords(mp, go, i, j, u, k) ==
    LET p == IF k < mp.tile_center THEN k ELSE k + 1
        xy0 == IF u # 0 THEN <<mp.tile_center, (0 - 1) * p>>
                        ELSE <<p, (0 - 1) * mp.tile_center>>
        hit == <<i, j>> \in DOMAIN go
        off == <<j * mp.tile_length, (0 - 1) * i * mp.tile_length>>
        xy == IF i > 0 \/ j > 0
              THEN IF hit THEN <<xy0[1] + go[<<i, j>>][1], xy0[2] + go[<<i, j>>][2]>>
                          ELSE <<xy0[1] + off[1], xy0[2] + off[2]>>
              ELSE xy0
    IN  [ret |-> hstack_scaled(mp, xy),
         grid_offsets |-> IF (i > 0 \/ j > 0) /\ ~hit
                          THEN StoreOffset(go, <<i, j>>, off) ELSE go]

\* the in-bounds indices of an (m, n, t) lattice
LatticeIndices(m, n, t) ==
    (0..(m - 1)) \X (0..(n - 1)) \X {0, 1} \X (0..(t - 1))

(***************************************************************************)
(* Scenario "mapper": a caller builds one mapper and calls it repeatedly.  *)
(***************************************************************************)
MapperArgs ==
    {a \in [m : 1..MaxM, n : 1..MaxN, t : 1..MaxT,
            scale : ScaleSet, center : CenterSet, dim : DimSet] :
        a.m * a.n <= MaxTiles}

InitMapper ==
    /\ scenario = "mapper"
    /\ args \in MapperArgs
    /\ G = Idle
    /\ xy_coords = Idle
    /\ grid_offsets = EmptyOffsets
    /\ xy_call = None
    /\ xy_ret = Idle
    /\ pos = Idle
    /\ found = Idle
    /\ drawn = Idle
    /\ pc = "start"

\* xy_coords = chimera_node_placer_2d(m, n, t, scale, center, dim)
Build ==
    /\ scenario = "mapper"
    /\ pc = "start"
    /\ pc' = "built"
    /\ xy_coords' = chimera_node_placer_2d(args.m, args.n, args.t,
                                           args.scale, args.center, args.dim)
    /\ grid_offsets' = EmptyOffsets
    /\ UNCHANGED <<scenario, args, G, xy_call, xy_ret, pos, found, drawn>>

\* xy_coords(i, j, u, k) on the mapper built
Call ==
    /\ scenario = "mapper"
    /\ pc = "built"
    /\ xy_coords.ok
    /\ \E idx \in LatticeIndices(args.m, args.n, args.t) :
          LET r == _xy_coords(xy_coords, grid_offsets, idx[1], idx[2], idx[3], idx[4])
          IN  /\ xy_call' = Some(idx)
              /\ xy_ret' = r.ret
              /\ grid_offsets' = r.grid_offsets
    /\ UNCHANGED <<scenario, args, G, xy_coords, pos, found, drawn, pc>>

NextMapper == Build \/ Call

SpecMapper == InitMapper /\ [][NextMapper]_vars

(***************************************************************************)
(* Graphs.  A graph argument is the record of its node set, the optional   *)
(* chimera_index attribute of each node, its edge set, and whether it is   *)
(* an nx.Graph or a bare collection of nodes.  G.nodes_iter() visits the   *)
(* nodes in increasing order.                                              *)
(***************************************************************************)
RECURSIVE SortedSeq(_)
SortedSeq(S) ==
    IF S = {} THEN <<>>
    ELSE LET x == min_of(S) IN <<x>> \o SortedSeq(S \ {x})

\* empty_graph = nx.Graph(); empty_graph.add_nodes_from(G), lines 28-31
AsGraph(Gx) ==
    IF Gx.is_graph THEN Gx
    ELSE [is_graph |-> TRUE, nodes |-> Gx.nodes, index |-> Gx.index, edges |-> {}]

EmptyPos == [v \in {} |-> <<>>]

\* the outcome of chimera_layout: a position map, or the exception raised
LayoutRaise(exc, line, built) ==
    [ok |-> FALSE, exc |-> exc, line |-> line, pos |-> EmptyPos, built |-> built]

\* pos = {v: xy_coords(i, j, u, k) for v, (i, j, u, k) in iteritems(chimera_indices)},
\* line 48: the calls share the memo table of the one mapper
RECURSIVE PlaceAll(_, _, _, _, _)
PlaceAll(mp, go, todo, chimera_indices, acc) ==
    IF todo = <<>> THEN acc
    ELSE LET v == Head(todo)
             idx == chimera_indices[v]
             r == _xy_coords(mp, go, idx[1], idx[2], idx[3], idx[4])
         IN  PlaceAll(mp, r.grid_offsets, Tail(todo), chimera_indices,
                      [w \in (DOMAIN acc) \cup {v} |-> IF w = v THEN r.ret ELSE acc[w]])

(***************************************************************************)
(* chimera_layout, lines 23-50.                                            *)
(***************************************************************************)
chimera_layout_t_from_shore(Gx, scale, center, dim) ==
    LET Gw == AsGraph(Gx)
    IN  IF \A v \in Gw.nodes : ~IsNone(Gw.index[v])
        THEN IF Gw.nodes = {} THEN LayoutRaise("ValueError", 37, FALSE)
             ELSE LET chimera_indices == [v \in Gw.nodes |-> Get(Gw.index[v])]
                      m == max_of({chimera_indices[v][1] : v \in Gw.nodes}) + 1
                      n == max_of({chimera_indices[v][2] : v \in Gw.nodes}) + 1
                      \* the shore selector is read instead of the shore index
                      t == max_of({chimera_indices[v][3] : v \in Gw.nodes}) + 1
                      mp == chimera_node_placer_2d(m, n, t, scale, center, dim)
                  IN  IF ~mp.ok THEN LayoutRaise(mp.exc, mp.line, FALSE)
                      ELSE [ok |-> TRUE, exc |-> "", line |-> 0,
                            pos |-> PlaceAll(mp, EmptyOffsets, SortedSeq(Gw.nodes),
                                             chimera_indices, EmptyPos),
                            built |-> TRUE]
        ELSE LayoutRaise("NotImplementedError", 41, FALSE)

chimera_layout_skip_unindexed(Gx, scale, center, dim) ==
    LET Gw == AsGraph(Gx)
        have == {v \in Gw.nodes : ~IsNone(Gw.index[v])}
    IN  \* the nodes without an index are left out instead of rejected
        IF have = {} THEN LayoutRaise("ValueError", 37, FALSE)
        ELSE LET chimera_indices == [v \in have |-> Get(Gw.index[v])]
                 m == max_of({chimera_indices[v][1] : v \in have}) + 1
                 n == max_of({chimera_indices[v][2] : v \in have}) + 1
                 t == max_of({chimera_indices[v][4] : v \in have}) + 1
                 mp == chimera_node_placer_2d(m, n, t, scale, center, dim)
             IN  IF ~mp.ok THEN LayoutRaise(mp.exc, mp.line, FALSE)
                 ELSE [ok |-> TRUE, exc |-> "", line |-> 0,
                       pos |-> PlaceAll(mp, EmptyOffsets, SortedSeq(have),
                                        chimera_indices, EmptyPos),
                       built |-> TRUE]

chimera_layout(Gx, scale, center, dim) ==
    LET Gw == AsGraph(Gx)
    IN  IF \A v \in Gw.nodes : ~IsNone(Gw.index[v])
        THEN \* max() of an empty sequence raises ValueError
             IF Gw.nodes = {} THEN LayoutRaise("ValueError", 37, FALSE)
             ELSE LET chimera_indices == [v \in Gw.nodes |-> Get(Gw.index[v])]
                      m == max_of({chimera_indices[v][1] : v \in Gw.nodes}) + 1
                      n == max_of({chimera_indices[v][2] : v \in Gw.nodes}) + 1
                      t == max_of({chimera_indices[v][4] : v \in Gw.nodes}) + 1
                      mp == chimera_node_placer_2d(m, n, t, scale, center, dim)
                  IN  IF ~mp.ok THEN LayoutRaise(mp.exc, mp.line, FALSE)
                      ELSE [ok |-> TRUE, exc |-> "", line |-> 0,
                            pos |-> PlaceAll(mp, EmptyOffsets, SortedSeq(Gw.nodes),
                                             chimera_indices, EmptyPos),
                            built |-> TRUE]
        ELSE LayoutRaise("NotImplementedError", 41, FALSE)

(***************************************************************************)
(* Scenario "layout": one call of chimera_layout.                          *)
(***************************************************************************)
MaxNodes == 3

\* the chimera_index attributes the nodes of the graphs carry: two tiles of
\* one column, both shores, two nodes of one tile, a second column
IndexChoices ==
    {<<0, 0, 0, 0>>, <<0, 0, 1, 1>>, <<1, 0, 0, 1>>, <<1, 0, 1, 0>>, <<0, 1, 1, 2>>}

LayoutGraphs ==
    UNION {[is_graph : BOOLEAN, nodes : {1..cnt},
            index : [1..cnt -> {None} \cup {Some(idx) : idx \in IndexChoices}],
            edges : {{}}] : cnt \in 0..MaxNodes}

LayoutArgs == [scale : ScaleSet, center : CenterSet, dim : DimSet]

InitLayout ==
    /\ scenario = "layout"
    /\ args \in LayoutArgs
    /\ G \in LayoutGraphs
    /\ xy_coords = Idle
    /\ grid_offsets = EmptyOffsets
    /\ xy_call = None
    /\ xy_ret = Idle
    /\ pos = Idle
    /\ found = Idle
    /\ drawn = Idle
    /\ pc = "start"

\* pos = chimera_layout(G, scale, center, dim)
Layout ==
    /\ scenario = "layout"
    /\ pc = "start"
    /\ pc' = "done"
    /\ pos' = chimera_layout(G, args.scale, args.center, args.dim)
    /\ UNCHANGED <<scenario, args, G, xy_coords, grid_offsets, xy_call, xy_ret, found, drawn>>

NextLayout == Layout

SpecLayout == InitLayout /\ [][NextLayout]_vars

\* the mapper builder and the orchestrator that calls it
InitBuild == InitMapper \/ InitLayout

NextBuild == Build \/ Call \/ Layout

SpecBuild == InitBuild /\ [][NextBuild]_vars

(***************************************************************************)
(* _find_chimera_indices, lines 133-183.  color(G) is networkx's: it       *)
(* returns some proper 2-colouring of G, or raises when G has none; the    *)
(* colouring it returned is the second argument here.                     *)
(***************************************************************************)
Neighbors(Gx, v) ==
    {w \in Gx.nodes : <<v, w>> \in Gx.edges \/ <<w, v>> \in Gx.edges}

\* G.degree(v)
degree(Gx, v) == Cardinality(Neighbors(Gx, v))

\* the colourings color(G) may return
ProperColorings(Gx) ==
    {c \in [Gx.nodes -> {0, 1}] : \A e \in Gx.edges : c[e[1]] # c[e[2]]}

RECURSIVE Reach(_, _)
Reach(Gx, S) ==
    LET T == S \cup UNION {Neighbors(Gx, v) : v \in S}
    IN  IF T = S THEN S ELSE Reach(Gx, T)

\* diameter(G) raises on a graph that is not connected
Connected(Gx) == \A v \in Gx.nodes : Reach(Gx, {v}) = Gx.nodes

NoIndices == [v \in {} |-> <<>>]

\* the outcome of _find_chimera_indices: the indices, or the exception raised;
\* coloring is the local of that name when the call ended
FindRaise(exc, line, coloring) ==
    [ok |-> FALSE, exc |-> exc, line |-> line,
     chimera_indices |-> NoIndices, coloring |-> coloring]

\* the loop of lines 173-176 over nlist, with the two counters shore_indices
RECURSIVE AssignShores(_, _, _, _)
AssignShores(todo, coloring, shore_indices, acc) ==
    IF todo = <<>> THEN acc
    ELSE LET v == Head(todo)
             u == 1 - coloring[v]
         IN  AssignShores(Tail(todo), coloring,
                          [shore_indices EXCEPT ![u] = @ + 1],
                          [w \in (DOMAIN acc) \cup {v} |->
                              IF w = v THEN <<0, 0, u, shore_indices[u]>> ELSE acc[w]])

find_chimera_indices_no_flip(Gx, colored) ==
    LET nlist == SortedSeq(Gx.nodes)
    IN  IF IsNone(colored) THEN FindRaise("NetworkXError", 150, NoIndices)
        ELSE IF nlist = <<>> THEN FindRaise("IndexError", 155, Get(colored))
        ELSE
        LET coloring == Get(colored)  \* the colouring is used as color() returned it
            delta == max_of({degree(Gx, v) : v \in Gx.nodes})
            shores == [c \in {0, 1} |-> Cardinality({v \in Gx.nodes : coloring[v] = c})]
            shore_size == max(shores[0], shores[1])
        IN  IF shore_size = delta
            THEN [ok |-> TRUE, exc |-> "", line |-> 0,
                  chimera_indices |->
                      AssignShores(nlist, coloring, [c \in {0, 1} |-> 0], NoIndices),
                  coloring |-> coloring]
            ELSE IF ~Connected(Gx) THEN FindRaise("NetworkXError", 182, coloring)
            ELSE FindRaise("NotImplementedError", 183, coloring)

_find_chimera_indices(Gx, colored) ==
    LET nlist == SortedSeq(Gx.nodes)
    IN  IF IsNone(colored) THEN FindRaise("NetworkXError", 150, NoIndices)
        ELSE IF nlist = <<>> THEN FindRaise("IndexError", 155, Get(colored))
        ELSE
        LET coloring == IF Get(colored)[nlist[1]] # 1
                        THEN [v \in Gx.nodes |-> 1 - Get(colored)[v]]
                        ELSE Get(colored)
            delta == max_of({degree(Gx, v) : v \in Gx.nodes})
            shores == [c \in {0, 1} |-> Cardinality({v \in Gx.nodes : coloring[v] = c})]
            shore_size == max(shores[0], shores[1])
        IN  IF shore_size = delta
            THEN [ok |-> TRUE, exc |-> "", line |-> 0,
                  chimera_indices |->
                      AssignShores(nlist, coloring, [c \in {0, 1} |-> 0], NoIndices),
                  coloring |-> coloring]
            ELSE IF ~Connected(Gx) THEN FindRaise("NetworkXError", 182, coloring)
            ELSE FindRaise("NotImplementedError", 183, coloring)

(***************************************************************************)
(* Scenario "find": one call of _find_chimera_indices on a graph without   *)
(* attributes: every simple graph of up to MaxFindNodes nodes, and every   *)
(* complete bipartite graph of up to MaxTileNodes nodes.                   *)
(***************************************************************************)
MaxFindNodes == 4
MaxTileNodes == 6

Pairs(cnt) == {e \in (1..cnt) \X (1..cnt) : e[1] < e[2]}

PlainGraph(cnt, E) ==
    [is_graph |-> TRUE, nodes |-> 1..cnt, index |-> [v \in 1..cnt |-> None], edges |-> E]

\* the complete bipartite graph with sides A and (1..cnt) \ A
CompleteBipartite(cnt, A) ==
    PlainGraph(cnt, {e \in Pairs(cnt) : (e[1] \in A) # (e[2] \in A)})

FindGraphs ==
    {PlainGraph(cnt, E) : <<cnt, E>> \in
        UNION {{<<c, F>> : F \in SUBSET Pairs(c)} : c \in 0..MaxFindNodes}}
    \cup
    {CompleteBipartite(cnt, A) : <<cnt, A>> \in
        UNION {{<<c, B>> : B \in (SUBSET (1..c)) \ {{}, 1..c}} : c \in 2..MaxTileNodes}}

InitFind ==
    /\ scenario = "find"
    /\ args = Idle
    /\ G \in FindGraphs
    /\ xy_coords = Idle
    /\ grid_offsets = EmptyOffsets
    /\ xy_call = None
    /\ xy_ret = Idle
    /\ pos = Idle
    /\ found = Idle
    /\ drawn = Idle
    /\ pc = "start"

\* found = _find_chimera_indices(G), on a graph that has a 2-colouring
FindBipartite ==
    /\ scenario = "find"
    /\ pc = "start"
    /\ \E c \in ProperColorings(G) : found' = _find_chimera_indices(G, Some(c))
    /\ pc' = "done"
    /\ UNCHANGED <<scenario, args, G, xy_coords, grid_offsets, xy_call, xy_ret, pos, drawn>>

\* found = _find_chimera_indices(G), on a graph that has none: color(G) raises
FindOddCycle ==
    /\ scenario = "find"
    /\ pc = "start"
    /\ ProperColorings(G) = {}
    /\ found' = _find_chimera_indices(G, None)
    /\ pc' = "done"
    /\ UNCHANGED <<scenario, args, G, xy_coords, grid_offsets, xy_call, xy_ret, pos, drawn>>

NextFind == FindBipartite \/ FindOddCycle

SpecFind == InitFind /\ [][NextFind]_vars

(***************************************************************************)
(* draw_chimera, lines 186-259.  A bias map is a function on the set of    *)
(* its keys.  networkx's draw and matplotlib's colour bar are external:    *)
(* the outcome records whether chimera_layout was called, the arguments    *)
(* draw was called with, and the range of the colour bar drawn.            *)
(***************************************************************************)
\* the outcome of draw_chimera when it raises
DrawRaise(exc, line, layout_called, a) ==
    [ok |-> FALSE, exc |-> exc, line |-> line, layout_called |-> layout_called,
     renderer |-> None, legend |-> None,
     linear_biases |-> a.linear_biases, quadratic_biases |-> a.quadratic_biases]

\* edge_color(u, v), lines 216-222
edge_color_one_way(quadratic_biases, u, v) ==
    \* only the key (u, v) is read
    IF <<u, v>> \in DOMAIN quadratic_biases THEN quadratic_biases[<<u, v>>] ELSE 0

edge_color(quadratic_biases, u, v) ==
    (IF <<u, v>> \in DOMAIN quadratic_biases THEN quadratic_biases[<<u, v>>] ELSE 0)
    + (IF <<v, u>> \in DOMAIN quadratic_biases THEN quadratic_biases[<<v, u>>] ELSE 0)

\* node_color(v), lines 224-230
node_color(linear_biases, quadratic_biases, v) ==
    (IF v \in DOMAIN linear_biases THEN linear_biases[v] ELSE 0)
    + (IF <<v, v>> \in DOMAIN quadratic_biases THEN quadratic_biases[<<v, v>>] ELSE 0)

\* max(abs(c) for c in colors), colors not empty
max_abs(colors) == max_of({abs(colors[x]) : x \in DOMAIN colors})

\* G.edges(): each edge once, in increasing order
RECURSIVE SortedEdges(_)
SortedEdges(E) ==
    IF E = {} THEN <<>>
    ELSE LET e == CHOOSE x \in E : \A y \in E :
                      x[1] < y[1] \/ (x[1] = y[1] /\ x[2] <= y[2])
         IN  <<e>> \o SortedEdges(E \ {e})

\* draw(G, chimera_layout(G), nodelist=..., ..., **kwargs) and the colour bar, lines 248-259
Render(Gx, a, nodelist, edgelist, cmap, bounds, colors, vmag) ==
    LET layout == chimera_layout(Gx, 1, None, 2)
    IN  IF ~layout.ok THEN DrawRaise(layout.exc, layout.line, TRUE, a)
        ELSE [ok |-> TRUE, exc |-> "", line |-> 0, layout_called |-> TRUE,
              renderer |-> Some([pos |-> layout.pos,
                                 nodelist |-> nodelist, edgelist |-> edgelist,
                                 cmap |-> cmap, edge_cmap |-> cmap,
                                 vmin |-> bounds[1], vmax |-> bounds[2],
                                 edge_vmin |-> bounds[3], edge_vmax |-> bounds[4],
                                 node_color |-> colors[1], edge_color |-> colors[2]]),
              legend |-> IF IsNone(vmag) THEN None
                         ELSE Some([vmin |-> (0 - 1) * Get(vmag), vmax |-> Get(vmag)]),
              linear_biases |-> a.linear_biases, quadratic_biases |-> a.quadratic_biases]

draw_chimera_check_after_draw(Gx, a) ==
    LET biased == DOMAIN a.linear_biases # {} \/ DOMAIN a.quadratic_biases # {}
    IN  IF ~biased
        THEN Render(Gx, a, a.nodelist, a.edgelist, None,
                    <<a.vmin, a.vmax, a.edge_vmin, a.edge_vmax>>,
                    <<a.node_color, a.edge_color>>, None)
        ELSE IF ~a.has_matplotlib THEN DrawRaise("ImportError", 198, FALSE, a)
        ELSE
        LET nodelist == IF IsNone(a.nodelist) THEN SortedSeq(Gx.nodes) ELSE Get(a.nodelist)
            edgelist == IF IsNone(a.edgelist) THEN SortedEdges(Gx.edges) ELSE Get(a.edgelist)
            ncol == [x \in DOMAIN nodelist |->
                        node_color(a.linear_biases, a.quadratic_biases, nodelist[x])]
            ecol == [x \in DOMAIN edgelist |->
                        edge_color(a.quadratic_biases, edgelist[x][1], edgelist[x][2])]
        IN  IF ncol = <<>> \/ ecol = <<>> THEN DrawRaise("ValueError", 238, FALSE, a)
            ELSE
            LET vmag == max(max_abs(ncol), max_abs(ecol))
                r == Render(Gx, a, Some(nodelist), Some(edgelist), Some("coolwarm"),
                       <<IF IsNone(a.vmin) THEN Some((0 - 1) * vmag) ELSE a.vmin,
                         IF IsNone(a.vmax) THEN Some(vmag) ELSE a.vmax,
                         IF IsNone(a.edge_vmin) THEN Some((0 - 1) * vmag) ELSE a.edge_vmin,
                         IF IsNone(a.edge_vmax) THEN Some(vmag) ELSE a.edge_vmax>>,
                       <<Some(ncol), Some(ecol)>>, Some(vmag))
            IN  \* the conflict is looked for once the figure is drawn
                IF ~IsNone(a.node_color) \/ ~IsNone(a.edge_color)
                THEN [r EXCEPT !.ok = FALSE, !.exc = "ValueError", !.line = 213]
                ELSE r

draw_chimera(Gx, a) ==
    LET biased == DOMAIN a.linear_biases # {} \/ DOMAIN a.quadratic_biases # {}
    IN  IF ~biased
        THEN Render(Gx, a, a.nodelist, a.edgelist, None,
                    <<a.vmin, a.vmax, a.edge_vmin, a.edge_vmax>>,
                    <<a.node_color, a.edge_color>>, None)
        ELSE IF ~a.has_matplotlib THEN DrawRaise("ImportError", 198, FALSE, a)
        ELSE IF ~IsNone(a.node_color) \/ ~IsNone(a.edge_color)
             THEN DrawRaise("ValueError", 213, FALSE, a)
        ELSE
        LET nodelist == IF IsNone(a.nodelist) THEN SortedSeq(Gx.nodes) ELSE Get(a.nodelist)
            edgelist == IF IsNone(a.edgelist) THEN SortedEdges(Gx.edges) ELSE Get(a.edgelist)
            ncol == [x \in DOMAIN nodelist |->
                        node_color(a.linear_biases, a.quadratic_biases, nodelist[x])]
            ecol == [x \in DOMAIN edgelist |->
                        edge_color(a.quadratic_biases, edgelist[x][1], edgelist[x][2])]
        IN  \* line 238: max() of an empty sequence raises ValueError
            IF ncol = <<>> \/ ecol = <<>> THEN DrawRaise("ValueError", 238, FALSE, a)
            ELSE
            LET vmag == max(max_abs(ncol), max_abs(ecol))
            IN  Render(Gx, a, Some(nodelist), Some(edgelist), Some("coolwarm"),
                       <<IF IsNone(a.vmin) THEN Some((0 - 1) * vmag) ELSE a.vmin,
                         IF IsNone(a.vmax) THEN Some(vmag) ELSE a.vmax,
                         IF IsNone(a.edge_vmin) THEN Some((0 - 1) * vmag) ELSE a.edge_vmin,
                         IF IsNone(a.edge_vmax) THEN Some(vmag) ELSE a.edge_vmax>>,
                       <<Some(ncol), Some(ecol)>>, Some(vmag))

(***************************************************************************)
(* Scenario "draw": one call of draw_chimera.                              *)
(***************************************************************************)
MaxDrawNodes == 2

\* node v of a drawn graph sits in the single tile, on shore (v-1) % 2
TileIndex(v) == <<0, 0, (v - 1) % 2, (v - 1) \div 2>>

\* graphs whose nodes all carry an index, and graphs whose node 1 carries none
DrawGraphs ==
    {[is_graph |-> TRUE, nodes |-> 1..cnt,
      index |-> [v \in 1..cnt |-> IF v = 1 /\ ~indexed THEN None ELSE Some(TileIndex(v))],
      edges |-> E] :
        <<cnt, E, indexed>> \in
            UNION {{<<c, F, b>> : F \in SUBSET Pairs(c), b \in BOOLEAN} :
                      c \in 0..MaxDrawNodes}}

LinearChoices ==
    {[v \in {} |-> 0], [v \in {1} |-> 0 - 2], [v \in {2} |-> 0],
     [v \in {1, 2} |-> IF v = 1 THEN 1 ELSE 0 - 3]}

QuadraticChoices ==
    {[e \in {} |-> 0],
     [e \in {<<1, 2>>} |-> 2],
     [e \in {<<1, 2>>, <<2, 1>>} |-> IF e = <<1, 2>> THEN 2 ELSE 0 - 5],
     [e \in {<<1, 1>>, <<2, 1>>} |-> IF e = <<1, 1>> THEN 4 ELSE 1]}

DrawArgs ==
    [linear_biases : LinearChoices, quadratic_biases : QuadraticChoices,
     nodelist : {None, Some(<<>>), Some(<<2, 1>>)},
     edgelist : {None, Some(<<>>), Some(<<<<2, 1>>, <<1, 1>>>>)},
     vmin : {None, Some(0)}, vmax : {None, Some(7)},
     edge_vmin : {None, Some(0 - 1)}, edge_vmax : {None, Some(0)},
     node_color : {None, Some(<<9, 9>>)}, edge_color : {None, Some(<<8>>)},
     has_matplotlib : BOOLEAN]

InitDraw ==
    /\ scenario = "draw"
    /\ args = Idle
    /\ G = Idle
    /\ xy_coords = Idle
    /\ grid_offsets = EmptyOffsets
    /\ xy_call = None
    /\ xy_ret = Idle
    /\ pos = Idle
    /\ found = Idle
    /\ drawn = Idle
    /\ pc = "start"

\* draw_chimera(G, linear_biases, quadratic_biases, nodelist, edgelist, ..., **kwargs)
Draw ==
    /\ scenario = "draw"
    /\ pc = "start"
    /\ \E g \in DrawGraphs, a \in DrawArgs :
          /\ G' = g
          /\ args' = a
          /\ drawn' = draw_chimera(g, a)
    /\ pc' = "done"
    /\ UNCHANGED <<scenario, xy_coords, grid_offsets, xy_call, xy_ret, pos, found>>

NextDraw == Draw

SpecDraw == InitDraw /\ [][NextDraw]_vars

\* the point the mapper returns for idx with its memo table as it is now
PointNow(idx) ==
    _xy_coords(xy_coords, grid_offsets, idx[1], idx[2], idx[3], idx[4]).ret

\* the point a freshly built mapper with the same arguments returns for idx
PointFresh(idx) ==
    LET fresh == chimera_node_placer_2d(args.m, args.n, args.t,
                                        args.scale, args.center, args.dim)
    IN  _xy_coords(fresh, EmptyOffsets, idx[1], idx[2], idx[3], idx[4]).ret

MapperCalled ==
    scenario = "mapper" /\ pc = "built" /\ xy_coords.ok /\ ~IsNone(xy_call)

Lattice == LatticeIndices(args.m, args.n, args.t)

(***************************************************************************)
(* C1 (distinctness): the point a call returned for an in-bounds index is  *)
(* returned for no other in-bounds index of the same lattice, whatever the *)
(* scale, the center, the dimension and the content of the memo table.     *)
(***************************************************************************)
C1_Distinct ==
    MapperCalled =>
        \A idx \in Lattice : idx # Get(xy_call) => PointNow(idx) # xy_ret

\* a call into the far tile of a 2 x 2 lattice of shore size 2, after a call
\* into another tile
C1_Witness ==
    /\ MapperCalled
    /\ args.m = 2 /\ args.n = 2 /\ args.t = 2
    /\ Get(xy_call) = <<1, 1, 1, 1>>
    /\ <<0, 1>> \in DOMAIN grid_offsets

UnitBoxCall ==
    MapperCalled /\ args.scale = 1 /\ args.dim = 2 /\ IsNone(args.center)

LatticeMaxX == max_of({PointNow(idx).num[1] : idx \in Lattice})

LatticeMinY == min_of({PointNow(idx).num[2] : idx \in Lattice})

(***************************************************************************)
(* C2 as amended (boundary scaling): with scale = 1, dim = 2 and center    *)
(* the origin every returned point has 0 <= x <= 1 and -1 <= y <= 0; the   *)
(* maximum x over the lattice is (N(T+3)-3) / (max(M,N)(T+3)-3) and the    *)
(* minimum y is -(M(T+3)-3) / (max(M,N)(T+3)-3): the maximum x is 1        *)
(* exactly when N >= M, the minimum y is -1 exactly when M >= N.           *)
(***************************************************************************)
C2_UnitBox ==
    UnitBoxCall =>
        /\ xy_ret.den = max(args.m, args.n) * (args.t + 3) - 3
        /\ 0 <= xy_ret.num[1] /\ xy_ret.num[1] <= xy_ret.den
        /\ 0 - xy_ret.den <= xy_ret.num[2] /\ xy_ret.num[2] <= 0
        /\ LatticeMaxX = args.n * (args.t + 3) - 3
        /\ LatticeMinY = 0 - (args.m * (args.t + 3) - 3)
        /\ (LatticeMaxX = xy_ret.den) <=> (args.n >= args.m)
        /\ (LatticeMinY = 0 - xy_ret.den) <=> (args.m >= args.n)

\* the extreme index of a lattice with more rows than columns: x stays below 1
C2_Witness ==
    /\ UnitBoxCall
    /\ args.m = 2 /\ args.n = 1
    /\ Get(xy_call) = <<args.m - 1, args.n - 1, 0, args.t - 1>>
    /\ xy_ret.num[1] = LatticeMaxX
    /\ xy_ret.num[1] < xy_ret.den

\* C2 as stated: the box is attained on both axes for every lattice, M # N included
C2_Original ==
    UnitBoxCall =>
        /\ 0 <= xy_ret.num[1] /\ xy_ret.num[1] <= xy_ret.den
        /\ 0 - xy_ret.den <= xy_ret.num[2] /\ xy_ret.num[2] <= 0
        /\ LatticeMaxX = xy_ret.den
        /\ LatticeMinY = 0 - xy_ret.den

(***************************************************************************)
(* C3 (determinism, cache transparency): after any sequence of calls, the  *)
(* point the last call returned is the point a freshly built mapper with   *)
(* the same arguments returns for that index, and every entry of the memo  *)
(* table for a tile (i, j) is (j*(T+3), -i*(T+3)).                         *)
(***************************************************************************)
C3_CacheTransparent ==
    (scenario = "mapper" /\ pc = "built" /\ xy_coords.ok) =>
        /\ ~IsNone(xy_call) => xy_ret = PointFresh(Get(xy_call))
        /\ \A key \in DOMAIN grid_offsets :
              grid_offsets[key] = <<key[2] * (args.t + 3), 0 - key[1] * (args.t + 3)>>

\* a call answered from the memo table: its tile was entered by an earlier call
C3_Witness ==
    /\ MapperCalled
    /\ Get(xy_call) = <<1, 1, 0, 1>>
    /\ DOMAIN grid_offsets = {<<0, 1>>, <<1, 0>>, <<1, 1>>}

LayoutDone == scenario = "layout" /\ pc = "done"

AllIndexed == \A v \in G.nodes : ~IsNone(G.index[v])

IndexOf(v) == Get(G.index[v])

\* M = 1 + max i, N = 1 + max j, T = 1 + max k over the node indices of G
LatticeM == 1 + max_of({IndexOf(v)[1] : v \in G.nodes})

LatticeN == 1 + max_of({IndexOf(v)[2] : v \in G.nodes})

LatticeT == 1 + max_of({IndexOf(v)[4] : v \in G.nodes})

\* the mapper chimera_node_placer_2d builds for G's lattice and the caller's arguments
DirectMapper ==
    chimera_node_placer_2d(LatticeM, LatticeN, LatticeT, args.scale, args.center, args.dim)

DirectPoint(v) ==
    _xy_coords(DirectMapper, EmptyOffsets,
               IndexOf(v)[1], IndexOf(v)[2], IndexOf(v)[3], IndexOf(v)[4]).ret

(***************************************************************************)
(* C4 (orchestrator round-trip): for a non-empty graph whose nodes all     *)
(* carry a chimera_index, chimera_layout returns one position per node,    *)
(* each of exactly dim coordinates and equal to the point the mapper built *)
(* for M = 1 + max i, N = 1 + max j, T = 1 + max k and the caller's scale, *)
(* center and dim returns for the node's index; when that mapper cannot be *)
(* built, chimera_layout raises the builder's exception.                   *)
(***************************************************************************)
C4_RoundTrip ==
    (LayoutDone /\ G.nodes # {} /\ AllIndexed) =>
        IF DirectMapper.ok
        THEN /\ pos.ok
             /\ DOMAIN pos.pos = G.nodes
             /\ \A v \in G.nodes :
                   /\ pos.pos[v] = DirectPoint(v)
                   /\ Len(pos.pos[v].num) = args.dim
        ELSE /\ ~pos.ok
             /\ pos.exc = DirectMapper.exc /\ pos.line = DirectMapper.line

\* three nodes, two of them in the same tile below the first, in three dimensions
C4_Witness ==
    /\ LayoutDone /\ pos.ok
    /\ G.nodes = {1, 2, 3}
    /\ G.index[1] = Some(<<1, 0, 0, 1>>)
    /\ G.index[2] = Some(<<1, 0, 1, 0>>)
    /\ G.index[3] = Some(<<0, 1, 1, 2>>)
    /\ args.dim = 3 /\ args.scale = 2

InvalidDimension(e) == ~e.ok /\ e.exc = "ValueError" /\ e.line \in {93, 99}

\* the ValueError raised because len(center) != dim, line 102
InvalidCenter(e) == ~e.ok /\ e.exc = "ValueError" /\ e.line = 102

(***************************************************************************)
(* C6 (parameter validation): for M, N, T >= 1 chimera_node_placer_2d      *)
(* raises the invalid-dimension ValueError whenever dim < 2, for every     *)
(* center; raises the invalid-center ValueError whenever dim >= 2 and a    *)
(* supplied center has a length other than dim; and returns a mapper in    *)
(* every other case.  chimera_layout on a non-empty graph whose nodes all  *)
(* carry indices raises the same invalid-dimension error when dim < 2.     *)
(***************************************************************************)
C6_Validation ==
    /\ (scenario = "mapper" /\ pc = "built") =>
          /\ args.dim < 2 => InvalidDimension(xy_coords)
          /\ (args.dim >= 2 /\ ~IsNone(args.center) /\ Len(Get(args.center)) # args.dim)
                => InvalidCenter(xy_coords)
          /\ (args.dim >= 2 /\ (IsNone(args.center) \/ Len(Get(args.center)) = args.dim))
                => xy_coords.ok
    /\ (LayoutDone /\ G.nodes # {} /\ AllIndexed /\ args.dim < 2) =>
          InvalidDimension(pos) /\ pos.pos = EmptyPos

\* dim = 1 with a center of length 2: both checks would fail, the dimension's is raised
C6_Witness ==
    /\ scenario = "mapper" /\ pc = "built"
    /\ args.dim = 1
    /\ args.center = Some(<<1, 1>>)
    /\ xy_coords.line = 99

FindDone == scenario = "find" /\ pc = "done"

\* the sides of G when G is the complete bipartite graph K(T,T), T >= 1
TileSides ==
    {A \in SUBSET G.nodes :
        /\ A # {} /\ 2 * Cardinality(A) = Cardinality(G.nodes)
        /\ G.edges = {e \in G.nodes \X G.nodes : e[1] < e[2] /\ (e[1] \in A) # (e[2] \in A)}}

ShoreOf(u) == {v \in DOMAIN found.chimera_indices : found.chimera_indices[v][3] = u}

ShoreSlots(u) == {found.chimera_indices[v][4] : v \in ShoreOf(u)}

IndicesDistinct ==
    \A v, w \in DOMAIN found.chimera_indices :
        v # w => found.chimera_indices[v] # found.chimera_indices[w]

(***************************************************************************)
(* C10 (single-tile inference): on the complete bipartite graph K(T,T),    *)
(* T >= 1, without attributes, _find_chimera_indices returns an index      *)
(* (0, 0, u, k) for every node; no two nodes share an index; the nodes of  *)
(* one side share u and the two sides differ in u; on each shore the k are *)
(* exactly 0..T-1, increasing with the node order; the lowest node has     *)
(* colour 1, shore 0 and k = 0.  For any bipartite graph whose larger      *)
(* colour class is as large as its maximum degree the indices returned are *)
(* pairwise distinct and the k of each shore are an initial segment of the *)
(* naturals.                                                               *)
(***************************************************************************)
C10_SingleTile ==
    FindDone =>
        /\ \A A \in TileSides :
              LET T == Cardinality(A)
                  ci == found.chimera_indices
                  low == min_of(G.nodes)
              IN  /\ found.ok
                  /\ DOMAIN ci = G.nodes
                  /\ \A v \in G.nodes : ci[v][1] = 0 /\ ci[v][2] = 0
                  /\ IndicesDistinct
                  /\ \A v, w \in G.nodes : (ci[v][3] = ci[w][3]) <=> ((v \in A) <=> (w \in A))
                  /\ ShoreSlots(0) = 0..(T - 1) /\ ShoreSlots(1) = 0..(T - 1)
                  /\ \A v, w \in G.nodes :
                        (ci[v][3] = ci[w][3] /\ v < w) => ci[v][4] < ci[w][4]
                  /\ found.coloring[low] = 1
                  /\ ci[low] = <<0, 0, 0, 0>>
        /\ (G.nodes # {} /\ DOMAIN found.coloring = G.nodes) =>
              LET larger == max(Cardinality({v \in G.nodes : found.coloring[v] = 0}),
                                Cardinality({v \in G.nodes : found.coloring[v] = 1}))
                  maxdeg == max_of({degree(G, v) : v \in G.nodes})
              IN  found.ok <=> (larger = maxdeg)
        /\ found.ok =>
              /\ DOMAIN found.chimera_indices = G.nodes
              /\ IndicesDistinct
              /\ \A u \in {0, 1} : ShoreSlots(u) = 0..(Cardinality(ShoreOf(u)) - 1)

\* K(3,3) with interleaved sides {1, 4, 5} and {2, 3, 6}
C10_Witness ==
    /\ FindDone /\ found.ok
    /\ {1, 4, 5} \in TileSides
    /\ Cardinality(G.nodes) = 6
    /\ found.chimera_indices[6] = <<0, 0, 1, 2>>

DrawDone == scenario = "draw" /\ pc = "done"

Biased == DOMAIN args.linear_biases # {} \/ DOMAIN args.quadratic_biases # {}

Conflict == ~IsNone(args.node_color) \/ ~IsNone(args.edge_color)

\* dict.get(key, 0)
BiasGet(biases, key) == IF key \in DOMAIN biases THEN biases[key] ELSE 0

\* nodelist / edgelist as drawn: the caller's, or all of G's nodes / edges
NodesDrawn == IF IsNone(args.nodelist) THEN SortedSeq(G.nodes) ELSE Get(args.nodelist)

EdgesDrawn == IF IsNone(args.edgelist) THEN SortedEdges(G.edges) ELSE Get(args.edgelist)

NodeValue(v) == BiasGet(args.linear_biases, v) + BiasGet(args.quadratic_biases, <<v, v>>)

EdgeValue(e) ==
    BiasGet(args.quadratic_biases, <<e[1], e[2]>>)
    + BiasGet(args.quadratic_biases, <<e[2], e[1]>>)

(***************************************************************************)
(* C7 (bias aggregation): whenever a bias map is non-empty and the         *)
(* renderer is called, it is passed, for each node v of nodelist in order, *)
(* linear_biases.get(v, 0) + quadratic_biases.get((v, v), 0), and for each *)
(* edge (u, v) of edgelist in order, quadratic_biases.get((u, v), 0) +     *)
(* quadratic_biases.get((v, u), 0); the two bias maps are left unchanged.  *)
(***************************************************************************)
C7_BiasAggregation ==
    (DrawDone /\ Biased) =>
        /\ drawn.linear_biases = args.linear_biases
        /\ drawn.quadratic_biases = args.quadratic_biases
        /\ ~IsNone(drawn.renderer) =>
              LET call == Get(drawn.renderer)
              IN  /\ call.nodelist = Some(NodesDrawn)
                  /\ call.edgelist = Some(EdgesDrawn)
                  /\ call.node_color =
                        Some([x \in DOMAIN NodesDrawn |-> NodeValue(NodesDrawn[x])])
                  /\ call.edge_color =
                        Some([x \in DOMAIN EdgesDrawn |-> EdgeValue(EdgesDrawn[x])])

\* both key orders of an edge carry a bias, a node carries a linear and a self bias
C7_Witness ==
    /\ DrawDone /\ ~IsNone(drawn.renderer)
    /\ DOMAIN args.linear_biases = {1, 2}
    /\ DOMAIN args.quadratic_biases = {<<1, 2>>, <<2, 1>>}
    /\ args.nodelist = Some(<<2, 1>>)
    /\ args.edgelist = Some(<<<<2, 1>>, <<1, 1>>>>)
    /\ Get(drawn.renderer).edge_color = Some(<<0 - 3, 0>>)
    /\ Get(drawn.renderer).node_color = Some(<<0 - 3, 1>>)

\* the largest absolute value over all the node and edge colour values
AllValues ==
    {abs(NodeValue(NodesDrawn[x])) : x \in DOMAIN NodesDrawn}
    \cup {abs(EdgeValue(EdgesDrawn[x])) : x \in DOMAIN EdgesDrawn}

Vmag == max_of(AllValues)

Override(given, default) == IF IsNone(given) THEN Some(default) ELSE given

\* a call with biases that nothing but the colour scale can stop: matplotlib is
\* there, no colour is supplied, the layout of G exists, some value is computed
ScaleCall ==
    /\ DrawDone /\ Biased /\ args.has_matplotlib /\ ~Conflict
    /\ G.nodes # {} /\ AllIndexed
    /\ AllValues # {}

(***************************************************************************)
(* C8 (symmetric colour scale): for every graph, nodelist and edgelist, a  *)
(* graph without edges and an empty nodelist or edgelist included,         *)
(* whenever a bias map is non-empty draw_chimera calls the renderer with   *)
(* vmin = -vmag, vmax = vmag, edge_vmin = -vmag, edge_vmax = vmag, vmag    *)
(* the largest absolute value over all node and edge colour values, each   *)
(* bound the caller supplied being passed through instead.                 *)
(***************************************************************************)
C8_SymmetricScale ==
    ScaleCall =>
        /\ ~IsNone(drawn.renderer)
        /\ LET call == Get(drawn.renderer)
           IN  /\ call.vmin = Override(args.vmin, 0 - Vmag)
               /\ call.vmax = Override(args.vmax, Vmag)
               /\ call.edge_vmin = Override(args.edge_vmin, 0 - Vmag)
               /\ call.edge_vmax = Override(args.edge_vmax, Vmag)

(***************************************************************************)
(* C9 (conflict rule): whenever a bias map is non-empty and node_color or  *)
(* edge_color is supplied, draw_chimera raises the ValueError of line 213  *)
(* (matplotlib being importable) before anything is delegated: no layout   *)
(* is computed, the renderer is not called, no legend is drawn.  When both *)
(* bias maps are empty a supplied colour is not rejected: it reaches the   *)
(* renderer unchanged whenever G has a layout, and no legend is drawn.     *)
(***************************************************************************)
C9_ConflictRule ==
    /\ (DrawDone /\ Biased /\ Conflict) =>
          /\ ~drawn.ok
          /\ args.has_matplotlib => (drawn.exc = "ValueError" /\ drawn.line = 213)
          /\ ~drawn.layout_called
          /\ IsNone(drawn.renderer)
          /\ IsNone(drawn.legend)
    /\ (DrawDone /\ ~Biased) =>
          /\ ~(drawn.exc = "ValueError" /\ drawn.line = 213)
          /\ IsNone(drawn.legend)
          /\ drawn.ok <=> chimera_layout(G, 1, None, 2).ok
          /\ drawn.ok =>
                /\ ~IsNone(drawn.renderer)
                /\ Get(drawn.renderer).node_color = args.node_color
                /\ Get(drawn.renderer).edge_color = args.edge_color

\* a linear bias together with a node_color, on a graph that could be drawn
C9_Witness ==
    /\ DrawDone /\ args.has_matplotlib
    /\ DOMAIN args.linear_biases = {1} /\ DOMAIN args.quadratic_biases = {}
    /\ ~IsNone(args.node_color) /\ IsNone(args.edge_color)
    /\ Cardinality(G.nodes) = 2 /\ AllIndexed /\ G.edges # {}
    /\ drawn.line = 213

====
